---- MODULE Spec2Model ----
(***************************************************************************)
(* Real-Time-Tracker: the socket.io relay (app.js, the tail of             *)
(* src/unnamed/part_000), the current browser client                       *)
(* (src/public/js/script.js) and the earlier browser client (the head of   *)
(* src/unnamed/part_000).                                                  *)
(*                                                                         *)
(* Every browser handler is one atomic action (one event-loop task).       *)
(* The transport is modelled as one FIFO queue per direction and           *)
(* connection.  socket.emit on a socket that is not connected is what      *)
(* socket.io-client makes of it: the packet is put in the socket's send    *)
(* buffer and goes out when the socket next connects.                      *)
(*                                                                         *)
(* The state of the browsers in Browsers is modelled in full.  The other   *)
(* clients are peers: sockets that connect, send, are sent what the relay  *)
(* emits, and disconnect; what their pages show is not part of the state,  *)
(* and of the packets sent to a peer the state keeps the latest.           *)
(***************************************************************************)
EXTENDS Integers, Sequences, FiniteSets, TLC

(* ---------------------------- bounds ---------------------------------- *)
\* events of the environment in a run, counted from the load of the browser's
\* page: connections made, packets emitted, positioning failures reported
MaxEvents == 3
\* the same, in the runs checked for what eventually happens
LiveEvents == 2
\* reconnections of a peer that those runs have on top of the events
LiveRejoins == 1

(* ----------------------- program constants ---------------------------- *)
THRESHOLD == 30000   \* now - lastUpdate > 30000
INTERVAL  == 30000   \* setInterval(..., 30000)

TimeStep == INTERVAL
\* how far back the state tells stored times apart (see Advance)
Horizon == THRESHOLD + INTERVAL

Clients  == {"A", "B", "M"}
Browsers == {"B"}
Peers    == Clients \ Browsers
\* A is a peer running the page as served; it comes and goes.  M is a peer
\* whose page was tampered with: it stays connected and sends payloads
\* written by hand.
Honest   == {"A"}
Tampered == {"M"}

\* Identities are pairs, so that any two can be compared: the socket.id of
\* the n-th connection of client c is <<c, n>>.
SocketId(c, n) == <<c, n>>

\* JavaScript null (mySocketId before 'connect'); as a property key it is
\* coerced to the string "null"
NULL     == <<"", 0>>
NullKey  == <<"null", 0>>

\* an id with a character above U+00FF: btoa() throws on it
Snowman == <<"u2603", 0>>

Positions == {<<10, 10>>, <<20, 20>>}
\* the position in a payload written by hand
CraftedPosition == <<10, 10>>

\* payload field that is not present
Absent == <<"", 1>>
\* a coordinate that is not present in the payload (undefined)
Undefined == -1
\* the coordinates of a payload that has neither latitude nor longitude
Malformed == <<Undefined, Undefined>>
\* L.marker(latlng) and marker.setLatLng(latlng) throw 'Invalid LatLng object'
\* when a coordinate is not a number
InvalidLatLng(p) == p[1] = Undefined \/ p[2] = Undefined

ScriptJs == "public/js/script.js"
Legacy   == "unnamed/part_000"

VARIABLES
    budget,          \* what the environment does in this run at most (it does not
                     \* change): events, and reconnections of a peer before these
                     \* count as events
    script,          \* which client script the page loads (the same for all)
    now,             \* wall clock, ms (the origin of time moves with it: see Advance)
    sockets,         \* relay: client -> socket.id of its open connection, or NULL
    connCount,       \* client -> connections made so far
    outbox,          \* client -> 'send-location' packets in flight to the relay
    inbox,           \* client -> 'receive-location' packets in flight to it
    mySocketId,      \* browser -> let mySocketId
    myMarker,        \* browser -> let myMarker
    activeUsers,     \* browser -> let activeUsers, in property order
    connectionText,  \* browser -> connectionText.textContent
    trackingText,    \* browser -> trackingText.textContent
    activeUsersList, \* browser -> rendered items of #active-users-list
    mapLayers,       \* browser -> key -> markers on the map made for that id
                     \*            (myMarker apart: see its onMap)
    nextTick,        \* browser -> time the reaper interval is next due
    emitted,         \* client -> 'send-location' packets emitted so far
    published,       \* peer -> the position its page published last (none: <<0, 0>>)
    lastSeen,        \* browser -> origin socket -> number of the last packet handled
                     \*            (a function on the origins it has handled one of)
    sendBuffer,      \* browser -> packets emitted while not connected, not yet sent
    leftAt,          \* peer -> time it disconnected, while it is disconnected
    failures,        \* browser -> positioning failures reported so far
    pendingFix       \* browser -> the fix the watchPosition of initializeApp has
                     \*            still to be called back with (none: <<0, 0>>)

\* events of the environment so far
Total(f) == f["A"] + f["B"] + f["M"]
\* reconnections of the peers so far (each peer is in its first connection
\* when the run starts)
Rejoined == (connCount["A"] - 1) + (connCount["M"] - 1)
Used == connCount["B"] + Total(emitted) + failures["B"]
          + (IF Rejoined > budget.rejoins THEN Rejoined - budget.rejoins ELSE 0)

vars == <<budget, script, now, sockets, connCount, outbox, inbox, mySocketId, myMarker,
          activeUsers, connectionText, trackingText, activeUsersList, mapLayers,
          nextTick, emitted, published, lastSeen, sendBuffer, leftAt, failures,
          pendingFix>>

netVars    == <<sockets, connCount, outbox, inbox>>
clientVars == <<mySocketId, myMarker, activeUsers, connectionText, trackingText,
                activeUsersList, mapLayers>>

(* ------------------- JavaScript objects and values -------------------- *)
\* property-key coercion: activeUsers[null] is activeUsers["null"]
ToKey(v) == IF v = NULL THEN NullKey ELSE v

\* the marker a registry entry holds: either the very object myMarker refers
\* to (own), or a Leaflet marker of its own at latlng
OwnMarker        == [own |-> TRUE, latlng |-> <<0, 0>>]
NewMarker(p)     == [own |-> FALSE, latlng |-> p]
\* marker: null (the earlier client makes the entry before its marker)
NullMarker       == [own |-> FALSE, latlng |-> Malformed]

\* let myMarker: null, or a marker with its position and whether a map shows it
NoMarker         == [set |-> FALSE, latlng |-> <<0, 0>>, onMap |-> FALSE]
MarkerAt(p, m)   == [set |-> TRUE, latlng |-> p, onMap |-> m]

\* an object as the sequence of its properties in insertion order; each
\* property is [key, id, marker, lastUpdate]
Keys(obj)        == [i \in 1..Len(obj) |-> obj[i].key]
KeySet(obj)      == {obj[i].key : i \in 1..Len(obj)}
Has(obj, k)      == k \in KeySet(obj)
IndexOf(obj, k)  == CHOOSE i \in 1..Len(obj) : obj[i].key = k
Get(obj, k)      == obj[IndexOf(obj, k)]
\* obj[k] = e : an existing property keeps its place, a new one goes last
Put(obj, k, e)   == IF Has(obj, k)
                    THEN [obj EXCEPT ![IndexOf(obj, k)] = e]
                    ELSE Append(obj, e)
\* delete obj[k]
Delete(obj, k)   == SelectSeq(obj, LAMBDA e : e.key # k)

\* the markers on the map other than myMarker, counted by the id they were
\* made for (a function on the ids that have one)
NoLayers        == [k \in {} |-> 0]
LayerCount(l, k) == IF k \in DOMAIN l THEN l[k] ELSE 0
AddLayer(l, k)    == [x \in DOMAIN l \cup {k} |-> LayerCount(l, x) + IF x = k THEN 1 ELSE 0]
RemoveLayer(l, k) == [x \in {y \in DOMAIN l : y # k \/ l[y] > 1} |->
                        l[x] - IF x = k THEN 1 ELSE 0]

\* ghost: the number of the last packet of m's origin that was handled
Seen(seen, m) == [x \in DOMAIN seen \cup {m.from} |-> IF x = m.from THEN m.n ELSE seen[x]]

MkUser(id, marker, t) == [key |-> ToKey(id), id |-> id, marker |-> marker, lastUpdate |-> t]

\* where the marker of entry e is, as browser state (mk = myMarker) has it
MarkerLatLng(e, mk) == IF e.marker.own THEN mk.latlng ELSE e.marker.latlng

\* btoa(id) throws InvalidCharacterError on a character outside Latin-1
BtoaThrows(id) == ToKey(id) = Snowman

\* hashId(id) = btoa(id).substring(0, 12): injective on the ids of the model
hashId(id) == <<"btoa", ToKey(id)>>

(* --------------------- updateActiveUsersList -------------------------- *)
\* The items rendered for `users` as seen by the browser whose mySocketId is
\* `me`, and whether the function threw (the items appended before the throw
\* stay in the list).
updateActiveUsersList(users, me) ==
    LET bad   == {i \in 1..Len(users) : users[i].id # me /\ BtoaThrows(users[i].id)}
        stop  == IF bad = {} THEN Len(users) + 1
                 ELSE CHOOSE i \in bad : \A j \in bad : i <= j
        items == [i \in 1..(stop - 1) |->
                     IF users[i].id = me THEN <<"You">> ELSE <<"User", hashId(users[i].id)>>]
    IN  [items |-> IF Len(users) = 0 THEN << <<"No active users">> >> ELSE items,
         threw |-> bad # {}]

\* the earlier client labels with user.id.substring(0, 6): no btoa, no throw
LegacyUpdateActiveUsersList(users, me) ==
    LET items == [i \in 1..Len(users) |->
                     IF users[i].id = me THEN <<"You">> ELSE <<"User", users[i].id>>]
    IN  [items |-> IF Len(users) = 0 THEN << <<"No active users">> >> ELSE items,
         threw |-> FALSE]

(* ------------------------------ relay --------------------------------- *)
\* {id: socket.id, ...data}: a property of data named id replaces socket.id
RelayMessage(socketId, data) ==
    [id        |-> IF data.id = Absent THEN socketId ELSE data.id,
     latitude  |-> data.latitude,
     longitude |-> data.longitude,
     from      |-> socketId,      \* ghost: the socket the packet came in on
     rest      |-> data.rest,     \* ...data: every other property of the payload
     n         |-> data.n]        \* ghost: the sender's packet number

\* a transport that lets a packet overtake those queued before it
Deliver_Front(d, queue, msg) == IF d \in Browsers THEN <<msg>> \o queue ELSE <<msg>>

\* a packet is added to the queue of socket d
Deliver(d, queue, msg) == IF d \in Browsers THEN Append(queue, msg) ELSE <<msg>>

\* socket.broadcast.emit would reach every connected socket but the sender's
Recipients_ExceptSender(sender) == {d \in Clients : sockets[d] # NULL /\ d # sender}

\* io.emit: every connected socket, the sender's included
Recipients(sender) == {d \in Clients : sockets[d] # NULL}

\* socket.on('send-location'), relay side
RelaySendLocation(c) ==
    /\ outbox[c] # <<>>
    /\ LET data == Head(outbox[c])
           msg  == RelayMessage(sockets[c], data)
       IN  inbox' = [d \in Clients |->
                       IF d \in Recipients(c) THEN Deliver(d, inbox[d], msg) ELSE inbox[d]]
    /\ outbox' = [outbox EXCEPT ![c] = Tail(@)]
    /\ UNCHANGED <<budget, pendingFix, script, now, sockets, connCount, clientVars, nextTick, emitted,
                   published, lastSeen>>
    /\ UNCHANGED <<sendBuffer, leftAt, failures>>

(* --------------------------- transport -------------------------------- *)
\* socket.emit('send-location', data) of client c: sent to the relay when the
\* socket is connected, put in the send buffer otherwise
Emit(c, data) ==
    LET packet == [data EXCEPT !.n = emitted[c] + 1]
    IN  /\ emitted' = [emitted EXCEPT ![c] = @ + 1]
        /\ IF sockets[c] # NULL
           THEN /\ outbox' = [outbox EXCEPT ![c] = Append(@, packet)]
                /\ UNCHANGED sendBuffer
           ELSE /\ sendBuffer' = [sendBuffer EXCEPT ![c] = Append(@, packet)]
                /\ UNCHANGED outbox

\* a peer's connection is established (the relay's 'connection' handler)
PeerConnect(c) ==
    /\ sockets[c] = NULL
    /\ Rejoined < budget.rejoins \/ Used < budget.events
    /\ sockets'   = [sockets EXCEPT ![c] = SocketId(c, connCount[c] + 1)]
    /\ connCount' = [connCount EXCEPT ![c] = @ + 1]
    /\ leftAt'    = [leftAt EXCEPT ![c] = now - Horizon]
    /\ UNCHANGED <<budget, pendingFix, script, now, outbox, inbox, clientVars, nextTick, emitted,
                   published, lastSeen>>
    /\ UNCHANGED <<sendBuffer, failures>>

\* a 'disconnect' handler that tells the connected sockets of the departure
PeerDisconnect_Notifies(c) ==
    /\ sockets[c] # NULL
    /\ sockets' = [sockets EXCEPT ![c] = NULL]
    /\ outbox'  = [outbox EXCEPT ![c] = <<>>]
    /\ inbox'   = [d \in Clients |->
                      IF d = c THEN <<>>
                      ELSE IF sockets[d] = NULL THEN inbox[d]
                      ELSE Deliver(d, inbox[d],
                                   RelayMessage(sockets[c],
                                                [id |-> Absent, latitude |-> Undefined,
                                                 longitude |-> Undefined,
                                                 rest |-> {}, n |-> emitted[c] + 1]))]
    /\ UNCHANGED <<budget, pendingFix, script, now, connCount, clientVars, nextTick, emitted,
                   published, lastSeen>>
    /\ leftAt' = [leftAt EXCEPT ![c] = now]
    /\ UNCHANGED <<sendBuffer, failures>>

\* a peer's connection is lost (the relay's 'disconnect' handler, a
\* console.log); the packets in flight are lost
PeerDisconnect(c) ==
    /\ sockets[c] # NULL
    /\ sockets' = [sockets EXCEPT ![c] = NULL]
    /\ outbox'  = [outbox EXCEPT ![c] = <<>>]
    /\ inbox'   = [inbox EXCEPT ![c] = <<>>]
    /\ UNCHANGED <<budget, pendingFix, script, now, connCount, clientVars, nextTick, emitted,
                   published, lastSeen>>
    /\ leftAt' = [leftAt EXCEPT ![c] = now]
    /\ UNCHANGED <<sendBuffer, failures>>

\* the connection of browser c is established: the relay's 'connection'
\* handler and the browser's 'connect' handler
Connect(c) ==
    /\ sockets[c] = NULL
    /\ Used < budget.events
    /\ LET id == SocketId(c, connCount[c] + 1)
       IN  /\ sockets'    = [sockets EXCEPT ![c] = id]
           /\ mySocketId' = [mySocketId EXCEPT ![c] = id]
    /\ connCount' = [connCount EXCEPT ![c] = @ + 1]
    /\ connectionText' = [connectionText EXCEPT ![c] = "Connected"]
    \* the packets of the send buffer go out
    /\ outbox' = [outbox EXCEPT ![c] = @ \o sendBuffer[c]]
    /\ UNCHANGED <<budget, pendingFix, script, now, inbox, myMarker, activeUsers, trackingText,
                   activeUsersList, mapLayers, nextTick, emitted, published, lastSeen>>
    /\ sendBuffer' = [sendBuffer EXCEPT ![c] = <<>>]
    /\ UNCHANGED <<leftAt, failures>>

\* a 'disconnect' handler that empties the registry and the map
Disconnect_ClearsRegistry(c) ==
    /\ sockets[c] # NULL
    /\ sockets' = [sockets EXCEPT ![c] = NULL]
    /\ outbox'  = [outbox EXCEPT ![c] = <<>>]
    /\ inbox'   = [inbox EXCEPT ![c] = <<>>]
    /\ connectionText' = [connectionText EXCEPT ![c] = "Disconnected"]
    /\ trackingText'   = [trackingText EXCEPT ![c] = "Tracking Inactive"]
    /\ activeUsers'    = [activeUsers EXCEPT ![c] = <<>>]
    /\ mapLayers'      = [mapLayers EXCEPT ![c] = NoLayers]
    /\ myMarker'       = [myMarker EXCEPT ![c] = NoMarker]
    /\ UNCHANGED <<budget, pendingFix, script, now, connCount, mySocketId,
                   activeUsersList, nextTick, emitted, published, lastSeen>>
    /\ UNCHANGED <<sendBuffer, leftAt, failures>>

\* the connection of browser c is lost: the relay's 'disconnect' handler
\* (a console.log), the packets in flight are lost, and the browser's
\* 'disconnect' handler
Disconnect(c) ==
    /\ sockets[c] # NULL
    /\ sockets' = [sockets EXCEPT ![c] = NULL]
    /\ outbox'  = [outbox EXCEPT ![c] = <<>>]
    /\ inbox'   = [inbox EXCEPT ![c] = <<>>]
    /\ connectionText' = [connectionText EXCEPT ![c] = "Disconnected"]
    /\ trackingText'   = [trackingText EXCEPT ![c] = "Tracking Inactive"]
    /\ UNCHANGED <<budget, pendingFix, script, now, connCount, mySocketId, myMarker, activeUsers,
                   activeUsersList, mapLayers, nextTick, emitted, published, lastSeen>>
    /\ UNCHANGED <<sendBuffer, leftAt, failures>>

(* --------------- socket.on('receive-location'), script.js ------------- *)
\* a handler without the early return
IsOwnEcho_Never(id, me) == FALSE

\* `if (id === mySocketId) return;`
IsOwnEcho(id, me) == id = me

\* a handler without the test `!activeUsers[id]`: every message makes a new
\* entry with a new marker
ReceiveEffect_AlwaysCreate(c, m) ==
    LET k      == ToKey(m.id)
        users1 == Put(activeUsers[c], k,
                      MkUser(m.id, NewMarker(<<m.latitude, m.longitude>>), now))
    IN  [users  |-> users1, marker |-> myMarker[c],
         list   |-> updateActiveUsersList(users1, mySocketId[c]).items,
         layers |-> AddLayer(mapLayers[c], k), threw |-> FALSE, branch |-> "created"]

\* a handler that stamps every entry of the registry, not only the message's
ReceiveEffect_TouchesAll(c, m) ==
    LET k      == ToKey(m.id)
        p      == <<m.latitude, m.longitude>>
        users  == activeUsers[c]
        users1 == IF Has(users, k) THEN users
                  ELSE Append(users, MkUser(m.id, NewMarker(p), now))
        users2 == [i \in 1..Len(users1) |->
                     IF users1[i].key = k /\ ~users1[i].marker.own
                     THEN [users1[i] EXCEPT !.marker = NewMarker(p), !.lastUpdate = now]
                     ELSE [users1[i] EXCEPT !.lastUpdate = now]]
    IN  IF m.id = mySocketId[c]
        THEN [users  |-> users, marker |-> myMarker[c], list |-> activeUsersList[c],
              layers |-> mapLayers[c], threw |-> FALSE, branch |-> "ignored"]
        ELSE [users  |-> users2, marker |-> myMarker[c],
              list   |-> updateActiveUsersList(users2, mySocketId[c]).items,
              layers |-> IF Has(users, k) THEN mapLayers[c] ELSE AddLayer(mapLayers[c], k),
              threw  |-> FALSE, branch |-> IF Has(users, k) THEN "updated" ELSE "created"]

\* a handler whose new marker is not added to the map (no .addTo(map))
ReceiveEffect_NotOnMap(c, m) ==
    LET k      == ToKey(m.id)
        users1 == Put(activeUsers[c], k,
                      MkUser(m.id, NewMarker(<<m.latitude, m.longitude>>), now))
    IN  [users  |-> users1, marker |-> myMarker[c],
         list   |-> updateActiveUsersList(users1, mySocketId[c]).items,
         layers |-> mapLayers[c], threw |-> FALSE, branch |-> "created"]

\* a handler that takes the connections of one client for one participant:
\* a message of a client's new socket takes over the entry of its old one
ReceiveEffect_SameParticipant(c, m) ==
    LET p      == <<m.latitude, m.longitude>>
        users  == activeUsers[c]
        e      == MkUser(m.id, NewMarker(p), now)
        old    == {i \in 1..Len(users) : users[i].id[1] = m.id[1]}
        users1 == IF old = {} THEN Append(users, e)
                  ELSE [i \in 1..Len(users) |-> IF i \in old THEN e ELSE users[i]]
    IN  [users  |-> users1, marker |-> myMarker[c],
         list   |-> updateActiveUsersList(users1, mySocketId[c]).items,
         layers |-> IF old = {} THEN AddLayer(mapLayers[c], ToKey(m.id)) ELSE mapLayers[c],
         threw  |-> FALSE, branch |-> IF old = {} THEN "created" ELSE "updated"]

\* The handler's effect on the state of one browser, given the message; the
\* result names the new values and whether the handler threw.
ReceiveEffect(c, m) ==
    LET p     == <<m.latitude, m.longitude>>
        users == activeUsers[c]
        k     == ToKey(m.id)
        same  == [users  |-> users, marker |-> myMarker[c], list |-> activeUsersList[c],
                  layers |-> mapLayers[c], threw |-> FALSE, branch |-> "ignored"]
    IN  IF IsOwnEcho(m.id, mySocketId[c]) THEN same
        ELSE IF InvalidLatLng(p)
        THEN \* L.marker(...) throws while the new entry's object literal is
             \* being evaluated, marker.setLatLng(...) before lastUpdate is set
             [same EXCEPT !.threw = TRUE, !.branch = "threw"]
        ELSE IF ~Has(users, k)
        THEN \* new entry with a new marker added to the map; then bindPopup,
             \* whose template calls hashId(id); then updateActiveUsersList()
             LET users1 == Put(users, k, MkUser(m.id, NewMarker(p), now))
                 r      == updateActiveUsersList(users1, mySocketId[c])
             IN  [users  |-> users1,
                  marker |-> myMarker[c],
                  list   |-> IF BtoaThrows(m.id) THEN activeUsersList[c] ELSE r.items,
                  layers |-> AddLayer(mapLayers[c], k),
                  threw  |-> BtoaThrows(m.id) \/ r.threw,
                  branch |-> "created"]
        ELSE \* marker.setLatLng, lastUpdate = new Date()
             LET e == Get(users, k)
             IN  [users  |-> Put(users, k,
                               [e EXCEPT !.marker = IF e.marker.own THEN e.marker
                                                    ELSE NewMarker(p),
                                         !.lastUpdate = now]),
                  marker |-> IF e.marker.own THEN [myMarker[c] EXCEPT !.latlng = p]
                             ELSE myMarker[c],
                  list   |-> activeUsersList[c],
                  layers |-> mapLayers[c],
                  threw  |-> FALSE,
                  branch |-> "updated"]

ReceiveLocation(c) ==
    /\ script = ScriptJs
    /\ inbox[c] # <<>>
    /\ LET m == Head(inbox[c])
           r == ReceiveEffect(c, m)
       IN  /\ activeUsers'     = [activeUsers EXCEPT ![c] = r.users]
           /\ myMarker'        = [myMarker EXCEPT ![c] = r.marker]
           /\ activeUsersList' = [activeUsersList EXCEPT ![c] = r.list]
           /\ mapLayers'       = [mapLayers EXCEPT ![c] = r.layers]
           /\ lastSeen'        = [lastSeen EXCEPT ![c] = Seen(@, m)]
    /\ inbox' = [inbox EXCEPT ![c] = Tail(@)]
    /\ UNCHANGED <<budget, pendingFix, script, now, sockets, connCount, outbox, mySocketId, connectionText,
                   trackingText, nextTick, emitted, published>>
    /\ UNCHANGED <<sendBuffer, leftAt, failures>>

(* ----------- socket.on("receive-location"), earlier client ------------ *)
LegacyReceiveEffect(c, m) ==
    LET p      == <<m.latitude, m.longitude>>
        users  == activeUsers[c]
        k      == ToKey(m.id)
        isNew  == ~Has(users, k)
        isCurrentUser == m.id = mySocketId[c]
        \* "Update active users": the entry, its marker still null when new
        users1 == IF isNew THEN Put(users, k, MkUser(m.id, NewMarker(p), now))
                  ELSE Put(users, k, [Get(users, k) EXCEPT !.lastUpdate = now])
        \* the entry had no marker yet: L.marker(...).addTo(map)
        fresh  == isNew \/ Get(users, k).marker = NullMarker
        list1  == IF isNew THEN LegacyUpdateActiveUsersList(users1, mySocketId[c]).items
                  ELSE activeUsersList[c]
        e1     == Get(users1, k)
        \* "Update or create marker"
        e2     == IF isNew \/ e1.marker.own THEN e1 ELSE [e1 EXCEPT !.marker = NewMarker(p)]
        mk2    == IF ~isNew /\ e1.marker.own THEN [myMarker[c] EXCEPT !.latlng = p]
                  ELSE myMarker[c]
        lay2   == IF fresh THEN AddLayer(mapLayers[c], k) ELSE mapLayers[c]
        users2 == Put(users1, k, e2)
        \* "If this is current user": myMarker = activeUsers[id].marker; entries
        \* that held the marker myMarker referred to before keep that marker
        rebind == isCurrentUser /\ ~e2.marker.own
        keep(e) == IF e.marker.own THEN [e EXCEPT !.marker = NewMarker(mk2.latlng)] ELSE e
        users3 == IF rebind
                  THEN Put([i \in 1..Len(users2) |-> keep(users2[i])], k,
                           [e2 EXCEPT !.marker = OwnMarker])
                  ELSE users2
        oldKeys == {users2[i].key : i \in {j \in 1..Len(users2) : users2[j].marker.own}}
        lay3   == IF rebind
                  THEN LET l == RemoveLayer(lay2, k)
                       IN  IF mk2.onMap
                           THEN [x \in DOMAIN l \cup oldKeys |-> LayerCount(l, x) +
                                                                IF x \in oldKeys THEN 1 ELSE 0]
                           ELSE l
                  ELSE lay2
        mk3    == IF rebind THEN MarkerAt(p, TRUE) ELSE mk2
    IN  IF InvalidLatLng(p)
        THEN \* the entry is made (marker: null) or its lastUpdate set, the list
             \* rendered, and then setLatLng or L.marker throws
             [users  |-> IF isNew THEN Put(users, k, MkUser(m.id, NullMarker, now))
                         ELSE users1,
              marker |-> myMarker[c], list |-> list1, layers |-> mapLayers[c],
              threw  |-> TRUE, branch |-> "threw"]
        ELSE [users |-> users3, marker |-> mk3, list |-> list1, layers |-> lay3,
              threw |-> FALSE, branch |-> IF isNew THEN "created" ELSE "updated"]

LegacyReceiveLocation(c) ==
    /\ script = Legacy
    /\ inbox[c] # <<>>
    /\ LET m == Head(inbox[c])
           r == LegacyReceiveEffect(c, m)
       IN  /\ activeUsers'     = [activeUsers EXCEPT ![c] = r.users]
           /\ myMarker'        = [myMarker EXCEPT ![c] = r.marker]
           /\ activeUsersList' = [activeUsersList EXCEPT ![c] = r.list]
           /\ mapLayers'       = [mapLayers EXCEPT ![c] = r.layers]
           /\ lastSeen'        = [lastSeen EXCEPT ![c] = Seen(@, m)]
    /\ inbox' = [inbox EXCEPT ![c] = Tail(@)]
    /\ UNCHANGED <<budget, pendingFix, script, now, sockets, connCount, outbox, mySocketId, connectionText,
                   trackingText, nextTick, emitted, published>>
    /\ UNCHANGED <<sendBuffer, leftAt, failures>>

(* ------------------ watchPosition callbacks, script.js ---------------- *)
\* {latitude, longitude}; rest: the names of the other properties
Payload(p) == [id |-> Absent, latitude |-> p[1], longitude |-> p[2], rest |-> {}, n |-> 0]

\* the marker and registry part of a success callback (the top-level one and
\* the one initializeApp registers have the same effect)
FixEffect(c, p) ==
    IF myMarker[c].set
    THEN \* myMarker.setLatLng([latitude, longitude])
         [marker |-> [myMarker[c] EXCEPT !.latlng = p], users |-> activeUsers[c]]
    ELSE \* myMarker = L.marker(...).addTo(map);
         \* activeUsers[mySocketId] = {id: mySocketId, marker: myMarker, lastUpdate}
         [marker |-> MarkerAt(p, TRUE),
          users  |-> Put(activeUsers[c], ToKey(mySocketId[c]),
                         MkUser(mySocketId[c], OwnMarker, now))]

FixGuard(c) == Used < budget.events

\* no fix is waiting for the callback of a subscription
NoFix == <<0, 0>>

\* The page holds two subscriptions, the top-level watchPosition and the one
\* initializeApp registers on DOMContentLoaded: the positioning source calls
\* back the first and then the second with each fix.
\* success callback of the top-level navigator.geolocation.watchPosition
WatchPositionSuccess(c, p) ==
    /\ script = ScriptJs
    /\ FixGuard(c)
    /\ pendingFix[c] = NoFix
    /\ pendingFix' = [pendingFix EXCEPT ![c] = p]
    /\ Emit(c, Payload(p))
    /\ myMarker'     = [myMarker EXCEPT ![c] = FixEffect(c, p).marker]
    /\ activeUsers'  = [activeUsers EXCEPT ![c] = FixEffect(c, p).users]
    /\ trackingText' = [trackingText EXCEPT ![c] = "Tracking Active"]
    /\ UNCHANGED <<budget, script, now, sockets, connCount, inbox, mySocketId, connectionText,
                   activeUsersList, mapLayers, nextTick, published, lastSeen>>
    /\ UNCHANGED <<leftAt, failures>>

\* success callback of the watchPosition that initializeApp registers
InitAppWatchSuccess(c, p) ==
    /\ script = ScriptJs
    /\ FixGuard(c)
    /\ pendingFix[c] = p
    /\ pendingFix' = [pendingFix EXCEPT ![c] = NoFix]
    /\ Emit(c, Payload(p))
    /\ myMarker'     = [myMarker EXCEPT ![c] = FixEffect(c, p).marker]
    /\ activeUsers'  = [activeUsers EXCEPT ![c] = FixEffect(c, p).users]
    /\ trackingText' = [trackingText EXCEPT ![c] = "Tracking Active"]
    /\ UNCHANGED <<budget, script, now, sockets, connCount, inbox, mySocketId, connectionText,
                   activeUsersList, mapLayers, nextTick, published, lastSeen>>
    /\ UNCHANGED <<leftAt, failures>>

\* an error callback that gives up the last known position
WatchPositionError_ClearsLocal(c) ==
    /\ Used < budget.events
    /\ trackingText' = [trackingText EXCEPT ![c] = "Tracking Error"]
    /\ failures' = [failures EXCEPT ![c] = @ + 1]
    /\ activeUsers' = [activeUsers EXCEPT ![c] = Delete(@, ToKey(mySocketId[c]))]
    /\ myMarker' = [myMarker EXCEPT ![c] = NoMarker]
    /\ UNCHANGED <<budget, pendingFix, script, now, netVars, mySocketId, connectionText,
                   activeUsersList, mapLayers, nextTick, emitted, published, lastSeen>>
    /\ UNCHANGED <<sendBuffer, leftAt>>

\* error callback of the top-level watchPosition (both clients)
WatchPositionError(c) ==
    /\ Used < budget.events
    /\ trackingText' = [trackingText EXCEPT ![c] = "Tracking Error"]
    /\ failures' = [failures EXCEPT ![c] = @ + 1]
    /\ UNCHANGED <<budget, pendingFix, script, now, netVars, mySocketId, myMarker, activeUsers, connectionText,
                   activeUsersList, mapLayers, nextTick, emitted, published, lastSeen>>
    /\ UNCHANGED <<sendBuffer, leftAt>>

\* error callback of the watchPosition that initializeApp registers
InitAppWatchError(c) ==
    /\ script = ScriptJs
    /\ Used < budget.events
    /\ trackingText' = [trackingText EXCEPT ![c] = "Tracking Failed"]
    /\ failures' = [failures EXCEPT ![c] = @ + 1]
    /\ UNCHANGED <<budget, pendingFix, script, now, netVars, mySocketId, myMarker, activeUsers, connectionText,
                   activeUsersList, mapLayers, nextTick, emitted, published, lastSeen>>
    /\ UNCHANGED <<sendBuffer, leftAt>>

\* success callback of the earlier client: emit and show 'Tracking Active'
LegacyWatchPositionSuccess(c, p) ==
    /\ script = Legacy
    /\ FixGuard(c)
    /\ Emit(c, Payload(p))
    /\ trackingText' = [trackingText EXCEPT ![c] = "Tracking Active"]
    /\ UNCHANGED <<budget, pendingFix, script, now, sockets, connCount, inbox, mySocketId, myMarker, activeUsers,
                   connectionText, activeUsersList, mapLayers, nextTick, published, lastSeen>>
    /\ UNCHANGED <<leftAt, failures>>

\* the watchPosition success callback of a peer's page emits its fix
PeerSendLocation(c, p) ==
    /\ sockets[c] # NULL
    /\ FixGuard(c)
    /\ Emit(c, Payload(p))
    /\ published' = [published EXCEPT ![c] = p]
    /\ UNCHANGED <<budget, pendingFix, script, now, sockets, connCount, inbox, clientVars, nextTick, lastSeen>>
    /\ UNCHANGED <<leftAt, failures>>

\* the properties a payload written by hand has besides (the handlers read
\* id, latitude and longitude and nothing else)
CraftedRest == {"note"}

\* ids a peer may put in a payload: those of the other open sockets, and one
\* that btoa() rejects
CraftedIds(c) == ({sockets[d] : d \in Clients \ {c}} \ {NULL}) \cup {Snowman}

\* a 'send-location' whose payload was written by hand and has an id property
\* (the relay takes whatever object the socket sends)
CraftedSendLocation(c, id, p) ==
    /\ sockets[c] # NULL
    /\ Used < budget.events
    /\ Emit(c, [Payload(p) EXCEPT !.id = id, !.rest = CraftedRest])
    /\ UNCHANGED <<budget, pendingFix, script, now, sockets, connCount, inbox, clientVars, nextTick, published,
                   lastSeen>>
    /\ UNCHANGED <<leftAt, failures>>

(* ------------------------- the reaper interval ------------------------ *)
\* the comparison with >= in place of >
IsStale_AtThreshold(user, t) == t - user.lastUpdate >= THRESHOLD

\* now - activeUsers[id].lastUpdate > 30000
IsStale(user, t) == t - user.lastUpdate > THRESHOLD

\* script.js: ... && id !== mySocketId   (id is a property key, a string)
ShouldEvict(id, user, t, me) == IsStale(user, t) /\ id # me

\* earlier client: if (timeDiff > 30000)
LegacyShouldEvict(id, user, t, me) == IsStale(user, t)

\* a reaper that deletes the entry and leaves its marker on the map
RECURSIVE Reap_KeepsMarker(_, _, _, _, _, _)
Reap_KeepsMarker(keys, i, st, t, me, scr) ==
    IF i > Len(keys) \/ st.threw THEN st
    ELSE LET id    == keys[i]
             user  == Get(st.users, id)
             evict == IF scr = ScriptJs THEN ShouldEvict(id, user, t, me)
                      ELSE LegacyShouldEvict(id, user, t, me)
             users1 == Delete(st.users, id)
             r      == IF scr = ScriptJs THEN updateActiveUsersList(users1, me)
                       ELSE LegacyUpdateActiveUsersList(users1, me)
             st1    == [st EXCEPT !.users = users1, !.list = r.items, !.threw = r.threw,
                                  !.removed = st.removed \cup {user}]
         IN  Reap_KeepsMarker(keys, i + 1, IF evict THEN st1 ELSE st, t, me, scr)

\* The forEach over Object.keys(activeUsers), from key number i on. st is
\* [users, marker, list, layers, threw, removed]; an exception thrown by
\* updateActiveUsersList ends the forEach.
RECURSIVE Reap(_, _, _, _, _, _)
Reap(keys, i, st, t, me, scr) ==
    IF i > Len(keys) \/ st.threw THEN st
    ELSE LET id    == keys[i]
             user  == Get(st.users, id)
             evict == IF scr = ScriptJs THEN ShouldEvict(id, user, t, me)
                      ELSE LegacyShouldEvict(id, user, t, me)
             users1 == Delete(st.users, id)
             r      == IF scr = ScriptJs THEN updateActiveUsersList(users1, me)
                       ELSE LegacyUpdateActiveUsersList(users1, me)
             st1    == [users   |-> users1,
                        \* map.removeLayer(marker)
                        marker  |-> IF user.marker.own THEN [st.marker EXCEPT !.onMap = FALSE]
                                    ELSE st.marker,
                        layers  |-> IF user.marker.own THEN st.layers
                                    ELSE RemoveLayer(st.layers, id),
                        list    |-> r.items,
                        threw   |-> r.threw,
                        removed |-> st.removed \cup {user}]
         IN  Reap(keys, i + 1, IF evict THEN st1 ELSE st, t, me, scr)

ReaperTick(c) ==
    /\ now >= nextTick[c]
    /\ LET st0 == [users |-> activeUsers[c], marker |-> myMarker[c],
                   list |-> activeUsersList[c], layers |-> mapLayers[c],
                   threw |-> FALSE, removed |-> {}]
           st  == Reap(Keys(activeUsers[c]), 1, st0, now, mySocketId[c], script)
       IN  /\ activeUsers'     = [activeUsers EXCEPT ![c] = st.users]
           /\ myMarker'        = [myMarker EXCEPT ![c] = st.marker]
           /\ activeUsersList' = [activeUsersList EXCEPT ![c] = st.list]
           /\ mapLayers'       = [mapLayers EXCEPT ![c] = st.layers]
    /\ nextTick' = [nextTick EXCEPT ![c] = @ + INTERVAL]
    /\ UNCHANGED <<budget, pendingFix, script, now, netVars, mySocketId, connectionText, trackingText,
                   emitted, published, lastSeen>>
    /\ UNCHANGED <<sendBuffer, leftAt, failures>>

\* Time passes: TimeStep ms.  The program reads the clock only to stamp an
\* entry (new Date()) and to subtract a stamp from it (now - lastUpdate), so
\* the state keeps every time relative to the present: now stays as it is
\* and every stored time moves TimeStep into the past.  A time more than
\* Horizon back is kept at Horizon: it is beyond the threshold either way.
\* An interval that is due fires before the clock reads the next step.
Back(t) == IF t - TimeStep < now - Horizon THEN now - Horizon ELSE t - TimeStep

Advance ==
    /\ \A c \in Browsers : now < nextTick[c]
    /\ activeUsers' = [c \in Browsers |->
                         [i \in 1..Len(activeUsers[c]) |->
                             [activeUsers[c][i] EXCEPT !.lastUpdate = Back(@)]]]
    /\ nextTick' = [c \in Browsers |-> nextTick[c] - TimeStep]
    /\ leftAt'   = [c \in Honest |-> Back(leftAt[c])]
    /\ UNCHANGED <<budget, pendingFix, script, now, netVars, mySocketId, myMarker, connectionText,
                   trackingText, activeUsersList, mapLayers, emitted, published,
                   lastSeen, sendBuffer, failures>>

(* ---------------------------------------------------------------------- *)
Start ==
    /\ script \in {ScriptJs, Legacy}
    /\ now = 0
    \* The peers are connected when the browser's page loads.  The page has
    \* just loaded: either its socket is not connected yet, or its 'connect'
    \* handler has run and nothing else (that connection is number 0, and is
    \* not counted among the events of the run).
    /\ \E pre \in SUBSET Browsers :
          /\ sockets = [c \in Clients |-> IF c \in Peers THEN SocketId(c, 1)
                                          ELSE IF c \in pre THEN SocketId(c, 0) ELSE NULL]
          /\ mySocketId = [c \in Browsers |-> IF c \in pre THEN SocketId(c, 0) ELSE NULL]
          /\ connectionText = [c \in Browsers |-> IF c \in pre THEN "Connected" ELSE ""]
    /\ connCount  = [c \in Clients |-> IF c \in Peers THEN 1 ELSE 0]
    /\ outbox     = [c \in Clients |-> <<>>]
    /\ inbox      = [c \in Clients |-> <<>>]
    /\ myMarker   = [c \in Browsers |-> NoMarker]
    /\ activeUsers = [c \in Browsers |-> <<>>]
    /\ trackingText   = [c \in Browsers |-> ""]
    /\ activeUsersList = [c \in Browsers |-> <<>>]
    /\ mapLayers  = [c \in Browsers |-> NoLayers]
    /\ nextTick   = [c \in Browsers |-> INTERVAL]
    /\ emitted    = [c \in Clients |-> 0]
    /\ published  = [c \in Honest |-> <<0, 0>>]
    /\ lastSeen   = [c \in Browsers |-> NoLayers]
    /\ sendBuffer = [c \in Browsers |-> <<>>]
    /\ leftAt     = [c \in Honest |-> now - Horizon]
    /\ failures   = [c \in Browsers |-> 0]
    /\ pendingFix = [c \in Browsers |-> NoFix]

Init == budget = [events |-> MaxEvents, rejoins |-> 0] /\ Start

\* a shorter run, for the properties of behaviours without end
LiveInit == budget = [events |-> LiveEvents, rejoins |-> LiveRejoins] /\ Start

Next ==
    \/ \E c \in Browsers : Connect(c)
    \/ \E c \in Browsers : Disconnect(c)
    \/ \E c \in Honest : PeerConnect(c)
    \/ \E c \in Honest : PeerDisconnect(c)
    \/ \E c \in Clients : RelaySendLocation(c)
    \/ \E c \in Browsers : ReceiveLocation(c)
    \/ \E c \in Browsers : LegacyReceiveLocation(c)
    \/ \E c \in Browsers, p \in Positions : WatchPositionSuccess(c, p)
    \/ \E c \in Browsers, p \in Positions : InitAppWatchSuccess(c, p)
    \/ \E c \in Browsers, p \in Positions : LegacyWatchPositionSuccess(c, p)
    \/ \E c \in Honest, p \in Positions : PeerSendLocation(c, p)
    \/ \E c \in Tampered : \E id \in CraftedIds(c) : CraftedSendLocation(c, id, CraftedPosition)
    \/ \E c \in Tampered : CraftedSendLocation(c, Absent, Malformed)
    \/ \E c \in Browsers : WatchPositionError(c)
    \/ \E c \in Browsers : InitAppWatchError(c)
    \/ \E c \in Browsers : ReaperTick(c)
    \/ Advance

Spec == Init /\ [][Next]_vars

\* Time does not stop, and an interval that is due fires (setInterval).
FairSpec ==
    /\ LiveInit /\ [][Next]_vars
    /\ WF_vars(Advance)
    /\ \A c \in Browsers : WF_vars(ReaperTick(c))

(* ====================================================================== *)
(*                               Claims                                   *)
(* ====================================================================== *)
Connected == {d \in Clients : sockets[d] # NULL}

\* what socket d holds after being sent msg
Sent(d, msg) == IF d \in Browsers THEN inbox'[d] = Append(inbox[d], msg)
                ELSE inbox'[d] = <<msg>>

\* the identity the relay gives a packet of socket k with payload data:
\* the payload's own id property when it has one
RelayedId(k, data) == IF data.id = Absent THEN sockets[k] ELSE data.id

C2_RelayedIdentityIsSender ==
    \A d \in Clients : \A i \in 1..Len(inbox[d]) : inbox[d][i].id = inbox[d][i].from

\* the registry entry of the local participant: the one that holds myMarker
LocalEntries(c) == {i \in 1..Len(activeUsers[c]) : activeUsers[c][i].marker.own}

\* C3: no reaper tick of script.js deletes the local participant's entry.
C3_ReaperKeepsLocal ==
    [][\A c \in Browsers :
         (script = ScriptJs /\ ReaperTick(c) /\ LocalEntries(c) # {})
            => \E i \in 1..Len(activeUsers'[c]) : activeUsers'[c][i].marker.own]_vars

\* the entries of browser c that differ from its own identity
Remote(users, me) == {i \in 1..Len(users) : users[i].id # me}

\* C4: right after a reaper tick every entry whose identity differs from the
\* browser's own has now - lastUpdate <= 30000.
C4_NoStaleRemoteAfterTick ==
    [][\A c \in Browsers :
         ReaperTick(c) =>
            \A i \in Remote(activeUsers'[c], mySocketId[c]) :
               now - activeUsers'[c][i].lastUpdate <= THRESHOLD]_vars

Entries(users) == {users[i] : i \in 1..Len(users)}

\* C5: every entry a reaper tick removes had now - lastUpdate > 30000 at that
\* tick; an entry updated within the threshold is kept as it is.
C5_EvictsOnlyStale ==
    [][\A c \in Browsers :
         ReaperTick(c) =>
            /\ \A e \in Entries(activeUsers[c]) \ Entries(activeUsers'[c]) :
                  now - e.lastUpdate > THRESHOLD
            /\ \A e \in Entries(activeUsers[c]) :
                  now - e.lastUpdate <= THRESHOLD => e \in Entries(activeUsers'[c])]_vars

\* browser B handled a packet of socket a1 and, a tick later, has no entry
\* for it any more, while an entry that is 30000 ms old is still there
C5_Witness ==
    /\ <<"A", 1>> \in DOMAIN lastSeen["B"]
    /\ ~Has(activeUsers["B"], <<"A", 1>>)
    /\ \E e \in Entries(activeUsers["B"]) : now - e.lastUpdate = THRESHOLD
    /\ nextTick["B"] > now

\* browser c handles the packet at the head of its queue
Handled(c) == ReceiveLocation(c) \/ LegacyReceiveLocation(c)

\* the message has its latitude and its longitude
WellFormed(m) == m.latitude # Undefined /\ m.longitude # Undefined

\* after the handler, browser c has exactly one entry and one marker for the
\* identity of m, at m's position and stamped with the time of handling
Upserted(c, m) ==
    LET k     == ToKey(m.id)
        users == activeUsers'[c]
    IN  /\ Cardinality({i \in 1..Len(users) : users[i].key = k}) = 1
        /\ LayerCount(mapLayers'[c], k) + (IF Get(users, k).marker.own THEN 1 ELSE 0) = 1
        /\ MarkerLatLng(Get(users, k), myMarker'[c]) = <<m.latitude, m.longitude>>
        /\ Get(users, k).lastUpdate = now

C8_PerSenderOrder ==
    [][\A c \in Browsers :
         Handled(c) => Head(inbox[c]).n > LayerCount(lastSeen[c], Head(inbox[c]).from)]_vars

\* browser B handled the first and the second packet of socket a1 and a
\* packet of socket m1
C8_Witness ==
    /\ <<"A", 1>> \in DOMAIN lastSeen["B"]
    /\ lastSeen["B"][<<"A", 1>>] = 2
    /\ <<"M", 1>> \in DOMAIN lastSeen["B"]

\* C9: a1 published twice, (20,20) last; a browser that is connected and has
\* handled a1's last packet holds (20,20) for a1 whenever it holds an entry
\* for a1.
C9_FinalPosition ==
    \A c \in Browsers :
       LET a == sockets["A"]
       IN  (/\ a # NULL
            /\ sockets[c] # NULL
            /\ emitted["A"] = 2
            /\ published["A"] = <<20, 20>>
            /\ LayerCount(lastSeen[c], a) = emitted["A"]
            /\ Has(activeUsers[c], a))
           => MarkerLatLng(Get(activeUsers[c], a), myMarker[c]) = <<20, 20>>

\* C10: A (a1) and B (b1) are connected, nobody else has sent, B has a fix
\* and has handled A's published position: B's registry (script.js) has
\* exactly the keys a1 and b1, a1 at A's position and b1 at B's.
C10_TwoEntries ==
    \A c \in Browsers :
       LET a == sockets["A"]
           b == sockets[c]
       IN  (/\ script = ScriptJs
            /\ a # NULL /\ connCount["A"] = 1
            /\ b # NULL /\ connCount[c] <= 1
            /\ emitted["M"] = 0
            /\ myMarker[c].set
            /\ emitted["A"] >= 1
            /\ LayerCount(lastSeen[c], a) = emitted["A"])
           => /\ KeySet(activeUsers[c]) = {a, b}
              /\ MarkerLatLng(Get(activeUsers[c], a), myMarker[c]) = published["A"]
              /\ Get(activeUsers[c], b).marker.own

\* the identity of A's first connection
a1 == SocketId("A", 1)

\* browser c is connected and its registry holds its own entry, under its
\* own identity
HasOwnEntry(c) ==
    /\ sockets[c] # NULL
    /\ \E i \in LocalEntries(c) : activeUsers[c][i].id = mySocketId[c]

\* C11: once A has disconnected and sends nothing more, the registry of B
\* (connected, holding its own entry; script.js) eventually has no entry for
\* a1, and B's own entry is there at that point and ever after.
C11_EventualEviction ==
    []((script = ScriptJs /\ sockets["A"] # a1 /\ HasOwnEntry("B"))
          => <>(~Has(activeUsers["B"], a1) /\ [](LocalEntries("B") # {})))

\* a success callback of script.js runs for browser c with the fix p
Fix(c, p) == WatchPositionSuccess(c, p) \/ InitAppWatchSuccess(c, p)

\* the packet client c emitted last, sent or waiting in the send buffer
LastPacket(c) ==
    IF sendBuffer'[c] # sendBuffer[c] THEN sendBuffer'[c][Len(sendBuffer'[c])]
    ELSE outbox'[c][Len(outbox'[c])]

\* C12: after every successful position fix the client has emitted a
\* 'send-location' with the latitude and longitude of that fix, and the
\* registry holds the local participant at that position with lastUpdate
\* equal to the time of the fix.
C12_FixUpsertsLocal ==
    [][\A c \in Browsers : \A p \in Positions :
         Fix(c, p) =>
            /\ emitted'[c] = emitted[c] + 1
            /\ <<LastPacket(c).latitude, LastPacket(c).longitude>> = p
            /\ \E i \in 1..Len(activeUsers'[c]) :
                  /\ activeUsers'[c][i].marker.own
                  /\ myMarker'[c].latlng = p
                  /\ activeUsers'[c][i].lastUpdate = now]_vars

\* an error callback of watchPosition runs for browser c
FixFailed(c) == WatchPositionError(c) \/ InitAppWatchError(c)

\* C13: a positioning failure sets the tracking indicator to an error state
\* and leaves the registry, the markers and the last known position as they
\* were; no 'send-location' is emitted.
C13_FailureKeepsRegistry ==
    [][\A c \in Browsers :
         FixFailed(c) =>
            /\ trackingText'[c] \in {"Tracking Error", "Tracking Failed"}
            /\ activeUsers'[c] = activeUsers[c]
            /\ myMarker'[c] = myMarker[c]
            /\ mapLayers'[c] = mapLayers[c]
            /\ activeUsersList'[c] = activeUsersList[c]
            /\ emitted'[c] = emitted[c]
            /\ outbox'[c] = outbox[c]
            /\ sendBuffer'[c] = sendBuffer[c]]_vars

\* browser B, which has its local participant on the map, was reported a
\* positioning failure last
C13_Witness ==
    /\ failures["B"] > 0
    /\ trackingText["B"] \in {"Tracking Error", "Tracking Failed"}
    /\ LocalEntries("B") # {}
    /\ myMarker["B"].set /\ myMarker["B"].onMap

\* whether the handler that browser c runs on message m throws
HandlerThrows(c, m) ==
    IF script = ScriptJs THEN ReceiveEffect(c, m).threw ELSE LegacyReceiveEffect(c, m).threw

\* C14: a 'receive-location' that lacks its latitude or longitude is
\* rejected: the registry and the markers are the same before and after the
\* handler, and the handler does not throw.
C14_MalformedRejected ==
    [][\A c \in Browsers :
         (Handled(c) /\ ~WellFormed(Head(inbox[c])))
            => /\ activeUsers'[c] = activeUsers[c]
               /\ myMarker'[c] = myMarker[c]
               /\ mapLayers'[c] = mapLayers[c]
               /\ ~HandlerThrows(c, Head(inbox[c]))]_vars

\* the numbers of the packets of client c on their way to the relay
InFlight(box, c) == {box[c][i].n : i \in 1..Len(box[c])}

\* C15: a 'send-location' emitted by the position-fix handler while the
\* channel is not open is dropped: a packet of a browser is on its way to the
\* relay only from an emit made on an open channel, never from an earlier
\* emit once the channel has opened.
C15_ClosedEmitDropped ==
    [][\A c \in Browsers :
         InFlight(outbox', c) \ InFlight(outbox, c) # {} => sockets[c] # NULL]_vars

\* the entries of participants other than the local one
RemoteEntries(c) == {i \in 1..Len(activeUsers[c]) : ~activeUsers[c][i].marker.own}

\* C16: a reaper tick of script.js at which no remote participant is stale
\* removes nothing: the registry and every marker are as they were.
C16_NoStaleNoChange ==
    [][\A c \in Browsers :
         (/\ script = ScriptJs
          /\ ReaperTick(c)
          /\ \A i \in RemoteEntries(c) : ~IsStale(activeUsers[c][i], now))
            => /\ activeUsers'[c] = activeUsers[c]
               /\ myMarker'[c] = myMarker[c]
               /\ mapLayers'[c] = mapLayers[c]]_vars

\* C17: a disconnect produces no message to any remaining channel and by
\* itself changes no other client's registry; an entry leaves a registry only
\* in a tick of that client's reaper.
C17_DisconnectSilent ==
    [][/\ \A c \in Honest :
            PeerDisconnect(c) =>
               /\ \A d \in Clients \ {c} : inbox'[d] = inbox[d]
               /\ activeUsers' = activeUsers
               /\ myMarker' = myMarker
               /\ mapLayers' = mapLayers
               /\ activeUsersList' = activeUsersList
       /\ \A c \in Browsers :
            Disconnect(c) => \A d \in Clients \ {c} : inbox'[d] = inbox[d]
       /\ \A c \in Browsers :
            ~(KeySet(activeUsers[c]) \subseteq KeySet(activeUsers'[c])) => ReaperTick(c)]_vars

\* A has disconnected, browser B has handled everything sent to it and still
\* holds the entry of a1
C17_Witness ==
    /\ sockets["A"] = NULL
    /\ sockets["B"] # NULL
    /\ inbox["B"] = <<>>
    /\ Has(activeUsers["B"], a1)

\* C18: a participant who disconnected at time t is in no other client's
\* registry at any time later than t + 30000 ms, whatever the phase of that
\* client's reaper timer.
C18_BoundedVisibility ==
    \A c \in Browsers : \A d \in Honest :
       (sockets[d] = NULL /\ now - leftAt[d] > THRESHOLD)
          => ~Has(activeUsers[c], SocketId(d, connCount[d]))

\* m is a message of a later connection of A (a2, ...), sent by A's own page
FromRejoined(m) == m.from[1] = "A" /\ m.from # a1 /\ m.id = m.from

C20_RejoinAfterEviction ==
    [][\A c \in Browsers :
         script = ScriptJs =>
            /\ ReaperTick(c) =>
                  /\ \A e \in Entries(activeUsers'[c]) : e \in Entries(activeUsers[c])
                  /\ \A k \in KeySet(activeUsers[c]) \ KeySet(activeUsers'[c]) :
                        LayerCount(mapLayers'[c], k) = 0
            /\ \A k \in KeySet(activeUsers'[c]) \ KeySet(activeUsers[c]) :
                  \/ Handled(c) /\ ToKey(Head(inbox[c]).id) = k
                  \/ (\E p \in Positions : Fix(c, p)) /\ k = ToKey(mySocketId[c])
            /\ (/\ Handled(c)
                /\ WellFormed(Head(inbox[c]))
                /\ Head(inbox[c]).id # mySocketId[c]
                /\ ~Has(activeUsers[c], ToKey(Head(inbox[c]).id)))
                  => LET m == Head(inbox[c])
                         k == ToKey(m.id)
                     IN  /\ Has(activeUsers'[c], k)
                         /\ Get(activeUsers'[c], k) =
                               MkUser(m.id, NewMarker(<<m.latitude, m.longitude>>), now)
                         /\ LayerCount(mapLayers'[c], k) = LayerCount(mapLayers[c], k) + 1]_vars

\* browser B (script.js) handled the first packet of a1, its reaper has since
\* evicted a1 (no entry, no marker), and the next message for a1 is at the
\* head of its queue
C20_Witness ==
    /\ script = ScriptJs
    /\ a1 \in DOMAIN lastSeen["B"]
    /\ lastSeen["B"][a1] = 1
    /\ ~Has(activeUsers["B"], a1)
    /\ LayerCount(mapLayers["B"], a1) = 0
    /\ inbox["B"] # <<>>
    /\ Head(inbox["B"]).id = a1
    /\ WellFormed(Head(inbox["B"]))

\* what handling m leaves alone in browser c: every entry but the one keyed
\* by m's identity, its place in the registry and its marker on the map
OthersUnchanged(c, m) ==
    LET k == ToKey(m.id)
    IN  /\ \A j \in KeySet(activeUsers[c]) \ {k} :
              /\ Has(activeUsers'[c], j)
              /\ Get(activeUsers'[c], j) = Get(activeUsers[c], j)
              /\ LayerCount(mapLayers'[c], j) = LayerCount(mapLayers[c], j)
        /\ KeySet(activeUsers'[c]) \subseteq KeySet(activeUsers[c]) \cup {k}
        /\ (Has(activeUsers[c], k) /\ Get(activeUsers[c], k).marker.own)
              \/ myMarker'[c] = myMarker[c]

\* joined (X unseen: one key more) or moved (X known: the same keys, X at the
\* message's position and time)
JoinedOrMoved(c, m) ==
    LET k == ToKey(m.id)
    IN  /\ IF Has(activeUsers[c], k)
           THEN Keys(activeUsers'[c]) = Keys(activeUsers[c])
           ELSE Keys(activeUsers'[c]) = Append(Keys(activeUsers[c]), k)
        /\ MarkerLatLng(Get(activeUsers'[c], k), myMarker'[c]) = <<m.latitude, m.longitude>>
        /\ Get(activeUsers'[c], k).lastUpdate = now

C22_NoHistory ==
    [][/\ \A c \in Browsers : Connect(c) => inbox'[c] = <<>>
       /\ \A d \in Clients :
            Len(inbox'[d]) > Len(inbox[d]) \/ (inbox'[d] # <<>> /\ Len(inbox'[d]) = Len(inbox[d])
                                                /\ inbox'[d] # inbox[d])
               => \E c \in Clients : RelaySendLocation(c)
       /\ \A c \in Browsers :
            \A k \in KeySet(activeUsers'[c]) \ KeySet(activeUsers[c]) :
               \/ \E p \in Positions : Fix(c, p)
               \/ Handled(c) /\ Head(inbox[c]).from = k]_vars

\* C23: for each 'send-location' handled, every recipient is sent exactly
\* one 'receive-location'; its latitude and longitude are those of the
\* inbound message, and it has no field other than identity, latitude and
\* longitude.
C23_PayloadIntegrity ==
    [][\A k \in Clients :
         RelaySendLocation(k) =>
            LET data == Head(outbox[k])
            IN  \A d \in Recipients(k) :
                   /\ Len(inbox'[d]) = IF d \in Browsers THEN Len(inbox[d]) + 1 ELSE 1
                   /\ LET m == inbox'[d][Len(inbox'[d])]
                      IN  /\ m.latitude = data.latitude
                          /\ m.longitude = data.longitude
                          /\ m.rest = {}]_vars

\* C24: on 'disconnect' the connection indicator becomes 'Disconnected' and
\* the tracking indicator no longer reads 'Tracking Active'; no participant
\* and no marker is removed (the registry is unchanged).
C24_DisconnectIndicators ==
    [][\A c \in Browsers :
         Disconnect(c) =>
            /\ connectionText'[c] = "Disconnected"
            /\ trackingText'[c] # "Tracking Active"
            /\ activeUsers'[c] = activeUsers[c]
            /\ myMarker'[c] = myMarker[c]
            /\ mapLayers'[c] = mapLayers[c]
            /\ activeUsersList'[c] = activeUsersList[c]]_vars

\* browser B, which was tracking and holds its own entry and a remote one,
\* has been disconnected
C24_Witness ==
    /\ sockets["B"] = NULL
    /\ connectionText["B"] = "Disconnected"
    /\ trackingText["B"] = "Tracking Inactive"
    /\ myMarker["B"].set /\ myMarker["B"].onMap
    /\ LocalEntries("B") # {}
    /\ RemoteEntries("B") # {}

\* C25: in script.js, whenever the local marker exists (myMarker is not
\* null), the registry has an entry keyed by the browser's current identity
\* (mySocketId) whose marker is that marker, and the marker is on the map.
C25_LocalConsistency ==
    \A c \in Browsers :
       (script = ScriptJs /\ myMarker[c].set)
          => /\ Has(activeUsers[c], ToKey(mySocketId[c]))
             /\ Get(activeUsers[c], ToKey(mySocketId[c])).marker.own
             /\ myMarker[c].onMap

\* the positioning source reports a new fix to browser c: the first callback
\* it makes for that fix
NewFix(c) ==
    \E p \in Positions : WatchPositionSuccess(c, p) \/ LegacyWatchPositionSuccess(c, p)

\* C26: the page holds one position subscription, so one fix results in one
\* 'send-location': a browser emits only in the step in which a new fix is
\* reported to it, never again for a fix it has already published.
C26_OnePublishPerFix ==
    [][\A c \in Browsers : emitted'[c] # emitted[c] => NewFix(c)]_vars

\* C27: in every reachable state the tracking indicator does not read
\* 'Tracking Active' while the connection indicator reads 'Disconnected'.
C27_IndicatorConsistency ==
    \A c \in Browsers :
       ~(trackingText[c] = "Tracking Active" /\ connectionText[c] = "Disconnected")

C29_ListConsistency ==
    [][\A c \in Browsers :
          (script = ScriptJs /\ Keys(activeUsers'[c]) # Keys(activeUsers[c])) =>
             /\ Len(activeUsersList'[c]) = Len(activeUsers'[c])
             /\ \A i \in 1..Len(activeUsers'[c]) :
                   (activeUsersList'[c][i] = <<"You">>)
                      <=> (activeUsers'[c][i].id = mySocketId'[c])]_vars

====
